---- MODULE Spec2Model ----
(***************************************************************************)
(* Credit simulator (src/app.py): the rule dictionaries REGLAS_NEGOCIO and *)
(* modelo.reglas, the scoring model ModeloScoringCrediticio, and the two   *)
(* JSON handlers /api/evaluar and /api/admin/actualizar-reglas.            *)
(*                                                                         *)
(* Units.  Python floats are kept as exact integers in a fixed unit:       *)
(*   TASA_MINIMA, TASA_MAXIMA, TDSR_MAXIMO, FACTOR_SCORING  hundredths     *)
(*   score_final, puntos_ponderados                       tenths           *)
(*   tdsr                                                 a fraction n/d   *)
(*   monto (before the final rounding)                    hundredths       *)
(***************************************************************************)
EXTENDS Integers, Sequences, FiniteSets, TLC

VARIABLES
    REGLAS_NEGOCIO,   \* the module-level dictionary (app.py:17)
    reglas,           \* modelo.reglas, the model's own copy (app.py:33)
    session,          \* session[s]: the admin_logged_in flag of client s
    adm,              \* adm[a]: the update request handled by worker a
    ev                \* ev[t]: the evaluation request handled by worker t

vars == <<REGLAS_NEGOCIO, reglas, session, adm, ev>>

-----------------------------------------------------------------------------
(* JSON values of a request body.  k is the kind: "num" a JSON integer v,  *)
(* "dec" a JSON number v / 100, "strnum" a string holding the integer      *)
(* literal v ("720"), "strdec" a string holding the decimal literal        *)
(* v / 100 ("0.45"), "csv" a string of comma-separated integer literals l  *)
(* ("3,6,9"), "str" any other string s, "array" a JSON array, "null" JSON  *)
(* null, "absent" a key the body does not carry.                           *)

Json(k, v, s, l) == [k |-> k, v |-> v, s |-> s, l |-> l]
Num(n) == Json("num", n, "", <<>>)
Dec(h) == Json("dec", h, "", <<>>)
StrNum(n) == Json("strnum", n, "", <<>>)
StrDec(h) == Json("strdec", h, "", <<>>)
Csv(l) == Json("csv", 0, "", l)
Str(x) == Json("str", 0, x, <<>>)
Array == Json("array", 0, "", <<>>)
Null == Json("null", 0, "", <<>>)
Ausente == Json("absent", 0, "", <<>>)

Campos ==
    {"ingresos_mensuales", "edad", "estado_civil", "dependientes",
     "nivel_estudios", "ocupacion", "antiguedad_empleo", "antiguedad_domicilio",
     "comprobante_domicilio", "comprobante_ingresos", "fico_score",
     "ultima_calificacion", "numero_consultas", "tipo_comprobante",
     "deuda_mensual"}

\* datos.get(campo, defecto)
Get(datos, campo, defecto) ==
    IF datos[campo].k = "absent" THEN defecto ELSE datos[campo]

\* The outcome of a conversion or of a call: exc = "" when it returned.
Ok(n) == [exc |-> "", v |-> n]
Exc(e) == [exc |-> e, v |-> 0]

\* int(f) of a float f = a / b, b > 0: truncation toward zero
Trunc(a, b) == IF a >= 0 THEN a \div b ELSE -((-a) \div b)

\* float(x), in hundredths
ToFloat100(x) ==
    CASE x.k \in {"num", "strnum"} -> Ok(x.v * 100)
      [] x.k \in {"dec", "strdec"} -> Ok(x.v)
      [] x.k \in {"str", "csv"} -> Exc("ValueError")
      [] x.k \in {"null", "array"} -> Exc("TypeError")

\* The field used as the body carries it, without float(): a string is
\* then compared with a number
ToFloatSinConversion(x) ==
    CASE x.k = "num" -> Ok(x.v)
      [] x.k = "dec" /\ x.v % 100 = 0 -> Ok(x.v \div 100)
      [] x.k \in {"str", "strnum", "strdec", "csv", "null", "array"} -> Exc("TypeError")

\* float(x) of a field of the applicant record: the amounts and the years
\* of the records are whole numbers
ToFloat(x) ==
    CASE x.k \in {"num", "strnum"} -> Ok(x.v)
      [] x.k \in {"dec", "strdec"} /\ x.v % 100 = 0 -> Ok(x.v \div 100)
      [] x.k \in {"str", "csv"} -> Exc("ValueError")
      [] x.k \in {"null", "array"} -> Exc("TypeError")

\* int(x): a JSON number is truncated, a decimal literal in a string is
\* not an integer literal
ToInt(x) ==
    CASE x.k \in {"num", "strnum"} -> Ok(x.v)
      [] x.k = "dec" -> Ok(Trunc(x.v, 100))
      [] x.k \in {"str", "strdec", "csv"} -> Exc("ValueError")
      [] x.k \in {"null", "array"} -> Exc("TypeError")

\* x.replace(...), x.title(): only a str has the method
StrMethod(x) ==
    IF x.k \in {"str", "strnum", "strdec", "csv"} THEN Ok(0)
    ELSE Exc("AttributeError")

\* x == 'literal'
EsTexto(x, texto) == x.k = "str" /\ x.s = texto

\* The first exception of a sequence of outcomes, "" when there is none.
RECURSIVE PrimeraExc(_)
PrimeraExc(os) ==
    IF os = <<>> THEN ""
    ELSE IF Head(os).exc # "" THEN Head(os).exc
    ELSE PrimeraExc(Tail(os))

Min(a, b) == IF a <= b THEN a ELSE b
Max(a, b) == IF a >= b THEN a ELSE b

-----------------------------------------------------------------------------
(* The rule set.                                                           *)

ReglasDefecto ==
    [SCORE_MINIMO_APROBACION |-> 250,
     INGRESO_MINIMO |-> 8000,
     MONTO_MAXIMO_CREDITO |-> 150000,
     PLAZOS_AUTORIZADOS |-> <<3, 6, 9, 12>>,
     TASA_MINIMA |-> 22,
     TASA_MAXIMA |-> 38,
     TDSR_MAXIMO |-> 45,
     FICO_MINIMO_APROBACION |-> 500,
     FACTOR_SCORING |-> 120]

Claves == DOMAIN ReglasDefecto

\* dict.update: the keys of nuevas replace those of d
Update(d, nuevas) ==
    [c \in (DOMAIN d) \cup (DOMAIN nuevas) |->
        IF c \in DOMAIN nuevas THEN nuevas[c] ELSE d[c]]

-----------------------------------------------------------------------------
(* The three scoring categories.  Each returns exc (the exception raised,  *)
(* "" when none), the capped points, the weighted points in tenths, the    *)
(* points per factor and, for the payment capacity, tdsr = tn / td.        *)

Categoria(e, obtenidos, maximos, peso, det, n, d) ==
    [exc |-> e,
     puntos_obtenidos |-> obtenidos,
     puntos_maximos |-> maximos,
     puntos_ponderados |-> obtenidos * peso,
     detalles |-> det,
     tn |-> n,
     td |-> d]

SinCategoria == Categoria("", 0, 0, 0, <<>>, 0, 1)

Detalle(f, p, m) == [factor |-> f, puntos |-> p, maximo |-> m]

\* int(puntos * FACTOR_SCORING), then min(puntos, tope)
\* The factor applied without the cap of the category
AplicarFactorSinTope(puntos, factor, tope) == Trunc(puntos * factor, 100)

\* The cap of the category applied before the factor
AplicarFactorTopeAntes(puntos, factor, tope) == Trunc(Min(puntos, tope) * factor, 100)

AplicarFactor(puntos, factor, tope) == Min(Trunc(puntos * factor, 100), tope)

PuntosDomicilio(a) ==
    IF a >= 6 THEN 30 ELSE IF a >= 3 THEN 25 ELSE IF a >= 1 THEN 15 ELSE 5

PuntosCivil(x) == IF EsTexto(x, "casado") THEN 20 ELSE 15

PuntosDependientes(n) == IF n <= 2 THEN 15 ELSE 10

PuntosEstudios(x) ==
    CASE EsTexto(x, "universidad") -> 20
      [] EsTexto(x, "preparatoria") -> 17
      [] EsTexto(x, "secundaria") -> 14
      [] OTHER -> 10

PuntosOcupacion(x) ==
    CASE EsTexto(x, "empleado_publico") -> 25
      [] EsTexto(x, "empleado_privado") -> 22
      [] EsTexto(x, "independiente") -> 18
      [] OTHER -> 15

PuntosEmpleo(a) == IF a >= 3 THEN 20 ELSE IF a >= 1 THEN 16 ELSE 10

PuntosEdad(e) ==
    IF e > 45 THEN 30 ELSE IF e >= 35 THEN 28 ELSE IF e >= 25 THEN 25 ELSE 20

PuntosValidaciones(dom, ing) ==
    IF dom /\ ing THEN 20 ELSE IF dom \/ ing THEN 15 ELSE 8

calcular_variables_generales(datos, r) ==
    LET domicilio == ToFloat(Get(datos, "antiguedad_domicilio", Num(0)))
        civil == Get(datos, "estado_civil", Str("soltero"))
        dependientes == ToInt(Get(datos, "dependientes", Num(0)))
        estudios == Get(datos, "nivel_estudios", Str("secundaria"))
        ocupacion == Get(datos, "ocupacion", Str("empleado_privado"))
        empleo == ToFloat(Get(datos, "antiguedad_empleo", Num(0)))
        edad == ToInt(Get(datos, "edad", Num(25)))
        e == PrimeraExc(<<domicilio, StrMethod(civil), dependientes,
                          StrMethod(estudios), StrMethod(ocupacion), empleo, edad>>)
        det == <<Detalle("Antiguedad en Domicilio", PuntosDomicilio(domicilio.v), 30),
                 Detalle("Estado Civil", PuntosCivil(civil), 20),
                 Detalle("Dependientes", PuntosDependientes(dependientes.v), 15),
                 Detalle("Nivel de Estudios", PuntosEstudios(estudios), 20),
                 Detalle("Ocupacion", PuntosOcupacion(ocupacion), 25),
                 Detalle("Antiguedad en Empleo", PuntosEmpleo(empleo.v), 20),
                 Detalle("Edad", PuntosEdad(edad.v), 30),
                 Detalle("Validaciones Documentales",
                         PuntosValidaciones(EsTexto(datos["comprobante_domicilio"], "si"),
                                            EsTexto(datos["comprobante_ingresos"], "si")),
                         20)>>
        puntos == det[1].puntos + det[2].puntos + det[3].puntos + det[4].puntos
                  + det[5].puntos + det[6].puntos + det[7].puntos + det[8].puntos
    IN  IF e # "" THEN [SinCategoria EXCEPT !.exc = e]
        ELSE Categoria("", AplicarFactor(puntos, r.FACTOR_SCORING, 180), 180, 3,
                       det, 0, 1)

PuntosCalificacion(c) ==
    IF c = 1 THEN 50 ELSE IF c = 2 THEN 40 ELSE IF c = 3 THEN 25 ELSE 15

PuntosConsultas(n) ==
    IF n <= 5 THEN 30 ELSE IF n <= 10 THEN 25 ELSE IF n <= 15 THEN 20 ELSE 15

\* The bands of 700 and 650 exchanged
PuntosFicoDesordenado(f) ==
    IF f >= 750 THEN 50
    ELSE IF f >= 700 THEN 38
    ELSE IF f >= 650 THEN 45
    ELSE IF f >= 600 THEN 30
    ELSE IF f >= 550 THEN 25
    ELSE 18

PuntosFico(f) ==
    IF f >= 750 THEN 50
    ELSE IF f >= 700 THEN 45
    ELSE IF f >= 650 THEN 38
    ELSE IF f >= 600 THEN 30
    ELSE IF f >= 550 THEN 25
    ELSE 18

calcular_historial_crediticio(datos, r) ==
    LET calificacion == ToInt(Get(datos, "ultima_calificacion", Num(2)))
        consultas == ToInt(Get(datos, "numero_consultas", Num(0)))
        fico == ToInt(Get(datos, "fico_score", Num(650)))
        e == PrimeraExc(<<calificacion, consultas, fico>>)
        det == <<Detalle("Ultima Calificacion", PuntosCalificacion(calificacion.v), 50),
                 Detalle("Numero de Consultas", PuntosConsultas(consultas.v), 30),
                 Detalle("FICO Score", PuntosFico(fico.v), 50)>>
        puntos == det[1].puntos + det[2].puntos + det[3].puntos
    IN  IF e # "" THEN [SinCategoria EXCEPT !.exc = e]
        ELSE Categoria("", AplicarFactor(puntos, r.FACTOR_SCORING, 130), 130, 3,
                       det, 0, 1)

PuntosComprobante(x) ==
    IF EsTexto(x, "nomina") \/ EsTexto(x, "estados_cuenta") THEN 35
    ELSE IF EsTexto(x, "declaracion") THEN 30
    ELSE 20

PuntosEstabilidad(x) ==
    IF EsTexto(x, "empleado_publico") THEN 25
    ELSE IF EsTexto(x, "empleado_privado") THEN 22
    ELSE 18

\* tdsr = n / d with d > 0: the bands < 0.25, <= 0.35, <= 0.45
PuntosTdsr(n, d) ==
    IF n * 100 < 25 * d THEN 30
    ELSE IF n * 100 <= 35 * d THEN 28
    ELSE IF n * 100 <= 45 * d THEN 25
    ELSE 15

\* ingresoMinimo is self.reglas['INGRESO_MINIMO'] as read at app.py:301,
\* factor is self.reglas['FACTOR_SCORING'] as read at app.py:323
CapacidadPago(datos, ingresoMinimo, factor) ==
    LET comprobante == Get(datos, "tipo_comprobante", Str("otros"))
        ocupacion == Get(datos, "ocupacion", Str("empleado_privado"))
        ingresos == ToFloat(Get(datos, "ingresos_mensuales", Num(ingresoMinimo)))
        deuda == ToFloat(Get(datos, "deuda_mensual", Num(0)))
        e == PrimeraExc(<<StrMethod(comprobante), StrMethod(ocupacion), ingresos, deuda>>)
        n == IF ingresos.v > 0 THEN deuda.v ELSE 0
        d == IF ingresos.v > 0 THEN ingresos.v ELSE 1
        det == <<Detalle("Tipo de Comprobante", PuntosComprobante(comprobante), 35),
                 Detalle("Estabilidad de Ingresos", PuntosEstabilidad(ocupacion), 25),
                 Detalle("TDSR (Ratio Deuda-Ingreso)", PuntosTdsr(n, d), 30)>>
        puntos == det[1].puntos + det[2].puntos + det[3].puntos
    IN  IF e # "" THEN [SinCategoria EXCEPT !.exc = e]
        ELSE Categoria("", AplicarFactor(puntos, factor, 90), 90, 4, det, n, d)

calcular_capacidad_pago(datos, r) ==
    CapacidadPago(datos, r.INGRESO_MINIMO, r.FACTOR_SCORING)

-----------------------------------------------------------------------------
(* The offer.  The monthly payment is the annuity formula evaluated in     *)
(* fixed point with four decimal digits, in whole currency units.          *)

\* round(x, n) of Python: to the nearest multiple of u, ties to the even one
RoundHalfEven(a, u) ==
    LET q == a \div u
        resto == a % u
    IN  IF 2 * resto < u THEN q
        ELSE IF 2 * resto > u THEN q + 1
        ELSE IF q % 2 = 0 THEN q ELSE q + 1

\* (q / 10000) ** n, scaled by 10000
RECURSIVE Potencia(_, _)
Potencia(q, n) == IF n = 0 THEN 10000 ELSE (Potencia(q, n - 1) * q) \div 10000

FactorMonto(score) ==
    IF score >= 3500 THEN 40
    ELSE IF score >= 3000 THEN 35
    ELSE IF score >= 2500 THEN 30
    ELSE 25

\* ingresos * factor_monto * (1 - min(tdsr, 0.4)), in hundredths
MontoCalculado(score, ingresos, tn, td) ==
    IF tn * 10 < 4 * td
    THEN IF ingresos = td THEN FactorMonto(score) * 10 * (td - tn)
         ELSE Trunc(ingresos * FactorMonto(score) * 10 * (td - tn), td)
    ELSE ingresos * FactorMonto(score) * 6

MontoFinal(score, ingresos, tn, td, montoMaximo) ==
    Max(Min(MontoCalculado(score, ingresos, tn, td), montoMaximo * 100), 1000000)

TasaBase(score, tasaMinima) ==
    IF score >= 3500 THEN tasaMinima
    ELSE IF score >= 3000 THEN tasaMinima + 4
    ELSE IF score >= 2500 THEN tasaMinima + 8
    ELSE tasaMinima + 12

\* The denominator without its "- 1"
PagoMensualSinRestar(monto, tasa, plazo) ==
    IF tasa > 0
    THEN LET i == (tasa * 10000) \div 1200
             p == Potencia(10000 + i, plazo)
         IN  ((monto \div 100) * ((i * p) \div p)) \div 10000
    ELSE (monto \div 100) \div plazo

\* pago_mensual for monto (hundredths), tasa (hundredths) and plazo # 0
PagoMensual(monto, tasa, plazo) ==
    IF tasa > 0
    THEN LET i == (tasa * 10000) \div 1200
             p == Potencia(10000 + i, plazo)
         IN  ((monto \div 100) * ((i * p) \div (p - 10000))) \div 10000
    ELSE (monto \div 100) \div plazo

\* One entry of opciones_plazo; exc when the payment or the share of the
\* income divides by zero.
OpcionPlazo(monto, tasa, plazo, ingresos) ==
    IF plazo = 0 \/ ingresos = 0
    THEN [exc |-> "ZeroDivisionError", plazo |-> plazo, pago_mensual |-> 0,
          porcentaje_ingreso |-> 0, factible |-> FALSE]
    ELSE LET pago == PagoMensual(monto, tasa, plazo)
         IN  [exc |-> "", plazo |-> plazo, pago_mensual |-> pago,
              porcentaje_ingreso |-> Trunc(pago * 1000, ingresos),
              factible |-> pago * 100 <= ingresos * 35]

OpcionesPlazo(monto, tasa, plazos, ingresos) ==
    [n \in 1..Len(plazos) |-> OpcionPlazo(monto, tasa, plazos[n], ingresos)]

\* The loop over the terms and the returned dictionary; exc is the
\* exception of the first term that raises one.
Oferta(monto, tasa, plazos, ingresos) ==
    LET opciones == OpcionesPlazo(monto, tasa, plazos, ingresos)
    IN  [exc |-> PrimeraExc(opciones),
         monto_aprobado |-> RoundHalfEven(monto, 10000) * 100,
         tasa_anual |-> tasa,
         opciones_plazo |-> opciones]

\* score in tenths, tdsr = tn / td
calcular_condiciones_credito(score, ingresos, tn, td, r) ==
    Oferta(MontoFinal(score, ingresos, tn, td, r.MONTO_MAXIMO_CREDITO),
           Min(TasaBase(score, r.TASA_MINIMA), r.TASA_MAXIMA),
           r.PLAZOS_AUTORIZADOS, ingresos)

-----------------------------------------------------------------------------
(* The result of evaluar_solicitud.  tipo is "rechazo" or "aprobado" for a *)
(* returned dictionary and "excepcion" when the call raised exc.  llamadas *)
(* lists the scoring functions the evaluation invoked, in order.  fecha is *)
(* the minute of the call that an approval carries, 0 when the dictionary  *)
(* has no 'fecha'.                                                         *)

SinCondiciones ==
    [exc |-> "", monto_aprobado |-> 0, tasa_anual |-> 0, opciones_plazo |-> <<>>]

SinResultado ==
    [tipo |-> "", exc |-> "", aprobado |-> FALSE, razon |-> <<>>, score |-> 0,
     nivel_riesgo |-> "", color_riesgo |-> "", monto_aprobado |-> 0,
     tasa_anual |-> 0, opciones_plazo |-> <<>>,
     desglose |-> <<>>, tn |-> 0, td |-> 1, fecha |-> 0, llamadas |-> <<>>]

Excepcion(e, llamadas) ==
    [SinResultado EXCEPT !.tipo = "excepcion", !.exc = e, !.llamadas = llamadas]

Rechazo(razon, score, llamadas) ==
    [SinResultado EXCEPT !.tipo = "rechazo", !.razon = razon, !.score = score,
                         !.llamadas = llamadas]

\* The income rejection carrying the text of the credit score rejection
RazonIngresosComoFico(minimo) == <<"FICO Score insuficiente (minimo ", minimo, ")">>

\* f'Ingresos insuficientes (minimo ${INGRESO_MINIMO:,})'
RazonIngresos(minimo) == <<"Ingresos insuficientes (minimo $", minimo, ")">>

\* f'FICO Score insuficiente (minimo {FICO_MINIMO_APROBACION})'
RazonFico(minimo) == <<"FICO Score insuficiente (minimo ", minimo, ")">>

\* f'TDSR excesivo ({tdsr:.1%}, maximo {TDSR_MAXIMO:.1%})': tenths of a percent
RazonTdsr(tn, td, maximo) ==
    <<"TDSR excesivo (", (2000 * tn + td) \div (2 * td), ", maximo ", maximo * 10, ")">>

\* The score rejection carrying the text of the credit score rejection
RazonScoreComoFico(score, minimo) == <<"FICO Score insuficiente (minimo ", minimo, ")">>

\* f'Score insuficiente ({score_final:.1f}, minimo {SCORE_MINIMO_APROBACION})'
RazonScore(score, minimo) == <<"Score insuficiente (", score, ", minimo ", minimo, ")">>

\* The thresholds compared with > in place of >=
NivelRiesgoEstricto(score) ==
    IF score > 3500 THEN "Bajo" ELSE IF score > 3000 THEN "Medio" ELSE "Alto"

NivelRiesgo(score) ==
    IF score >= 3500 THEN "Bajo" ELSE IF score >= 3000 THEN "Medio" ELSE "Alto"

ColorRiesgo(score) ==
    IF score >= 3500 THEN "success" ELSE IF score >= 3000 THEN "warning" ELSE "danger"

Llamadas3 ==
    <<"calcular_variables_generales", "calcular_historial_crediticio",
      "calcular_capacidad_pago">>

Aprobado(score, cond, g, h, c) ==
    [SinResultado EXCEPT
        !.tipo = "aprobado", !.aprobado = TRUE, !.score = score,
        !.nivel_riesgo = NivelRiesgo(score), !.color_riesgo = ColorRiesgo(score),
        !.monto_aprobado = cond.monto_aprobado, !.tasa_anual = cond.tasa_anual,
        !.opciones_plazo = cond.opciones_plazo,
        !.desglose = <<g, h, c>>, !.tn = c.tn, !.td = c.td,
        !.llamadas = Llamadas3 \o <<"calcular_condiciones_credito">>]

\* A request body: obj is FALSE when the JSON document is not an object.
Cuerpo(d) == [obj |-> TRUE, d |-> d]
Vacio == [c \in Campos |-> Ausente]
NoObjeto == [obj |-> FALSE, d |-> Vacio]

ScoreFinal(g, h, c) == g.puntos_ponderados + h.puntos_ponderados + c.puntos_ponderados

\* The comparison of the TDSR check turned around
TdsrExcedeInvertido(c, maximo) == c.tn * 100 < maximo * c.td

TdsrExcede(c, maximo) == c.tn * 100 > maximo * c.td

ScoreInsuficiente(score, minimo) == score < minimo * 10

\* evaluar_solicitud with the three categories computed before the basic
\* validations
evaluar_solicitud_puntua_primero(datos, r) ==
    IF ~datos.obj THEN Excepcion("AttributeError", <<>>)
    ELSE
    LET d == datos.d
        ingresos == ToFloat(Get(d, "ingresos_mensuales", Num(0)))
        fico == ToInt(Get(d, "fico_score", Num(600)))
        g == calcular_variables_generales(d, r)
        h == calcular_historial_crediticio(d, r)
        c == calcular_capacidad_pago(d, r)
        score == ScoreFinal(g, h, c)
        cond == calcular_condiciones_credito(score, ingresos.v, c.tn, c.td, r)
    IN  IF g.exc # "" THEN Excepcion(g.exc, SubSeq(Llamadas3, 1, 1))
        ELSE IF h.exc # "" THEN Excepcion(h.exc, SubSeq(Llamadas3, 1, 2))
        ELSE IF c.exc # "" THEN Excepcion(c.exc, Llamadas3)
        ELSE IF ingresos.exc # "" THEN Excepcion(ingresos.exc, Llamadas3)
        ELSE IF ingresos.v < r.INGRESO_MINIMO
        THEN Rechazo(RazonIngresos(r.INGRESO_MINIMO), 0, Llamadas3)
        ELSE IF fico.exc # "" THEN Excepcion(fico.exc, Llamadas3)
        ELSE IF fico.v < r.FICO_MINIMO_APROBACION
        THEN Rechazo(RazonFico(r.FICO_MINIMO_APROBACION), 0, Llamadas3)
        ELSE IF TdsrExcede(c, r.TDSR_MAXIMO)
        THEN Rechazo(RazonTdsr(c.tn, c.td, r.TDSR_MAXIMO), score, Llamadas3)
        ELSE IF ScoreInsuficiente(score, r.SCORE_MINIMO_APROBACION)
        THEN Rechazo(RazonScore(score, r.SCORE_MINIMO_APROBACION), score, Llamadas3)
        ELSE IF cond.exc # ""
        THEN Excepcion(cond.exc, Llamadas3 \o <<"calcular_condiciones_credito">>)
        ELSE Aprobado(score, cond, g, h, c)

\* evaluar_solicitud with the credit score checked before the income
evaluar_solicitud_fico_primero(datos, r) ==
    IF ~datos.obj THEN Excepcion("AttributeError", <<>>)
    ELSE
    LET d == datos.d
        ingresos == ToFloat(Get(d, "ingresos_mensuales", Num(0)))
        fico == ToInt(Get(d, "fico_score", Num(600)))
        g == calcular_variables_generales(d, r)
        h == calcular_historial_crediticio(d, r)
        c == calcular_capacidad_pago(d, r)
        score == ScoreFinal(g, h, c)
        cond == calcular_condiciones_credito(score, ingresos.v, c.tn, c.td, r)
    IN  IF fico.exc # "" THEN Excepcion(fico.exc, <<>>)
        ELSE IF fico.v < r.FICO_MINIMO_APROBACION
        THEN Rechazo(RazonFico(r.FICO_MINIMO_APROBACION), 0, <<>>)
        ELSE IF ingresos.exc # "" THEN Excepcion(ingresos.exc, <<>>)
        ELSE IF ingresos.v < r.INGRESO_MINIMO
        THEN Rechazo(RazonIngresos(r.INGRESO_MINIMO), 0, <<>>)
        ELSE IF g.exc # "" THEN Excepcion(g.exc, SubSeq(Llamadas3, 1, 1))
        ELSE IF h.exc # "" THEN Excepcion(h.exc, SubSeq(Llamadas3, 1, 2))
        ELSE IF c.exc # "" THEN Excepcion(c.exc, Llamadas3)
        ELSE IF TdsrExcede(c, r.TDSR_MAXIMO)
        THEN Rechazo(RazonTdsr(c.tn, c.td, r.TDSR_MAXIMO), score, Llamadas3)
        ELSE IF ScoreInsuficiente(score, r.SCORE_MINIMO_APROBACION)
        THEN Rechazo(RazonScore(score, r.SCORE_MINIMO_APROBACION), score, Llamadas3)
        ELSE IF cond.exc # ""
        THEN Excepcion(cond.exc, Llamadas3 \o <<"calcular_condiciones_credito">>)
        ELSE Aprobado(score, cond, g, h, c)

\* evaluar_solicitud run alone on the rule set r
evaluar_solicitud(datos, r) ==
    IF ~datos.obj THEN Excepcion("AttributeError", <<>>)
    ELSE
    LET d == datos.d
        ingresos == ToFloat(Get(d, "ingresos_mensuales", Num(0)))
        fico == ToInt(Get(d, "fico_score", Num(600)))
        g == calcular_variables_generales(d, r)
        h == calcular_historial_crediticio(d, r)
        c == calcular_capacidad_pago(d, r)
        score == ScoreFinal(g, h, c)
        cond == calcular_condiciones_credito(score, ingresos.v, c.tn, c.td, r)
    IN  IF ingresos.exc # "" THEN Excepcion(ingresos.exc, <<>>)
        ELSE IF ingresos.v < r.INGRESO_MINIMO
        THEN Rechazo(RazonIngresos(r.INGRESO_MINIMO), 0, <<>>)
        ELSE IF fico.exc # "" THEN Excepcion(fico.exc, <<>>)
        ELSE IF fico.v < r.FICO_MINIMO_APROBACION
        THEN Rechazo(RazonFico(r.FICO_MINIMO_APROBACION), 0, <<>>)
        ELSE IF g.exc # "" THEN Excepcion(g.exc, SubSeq(Llamadas3, 1, 1))
        ELSE IF h.exc # "" THEN Excepcion(h.exc, SubSeq(Llamadas3, 1, 2))
        ELSE IF c.exc # "" THEN Excepcion(c.exc, Llamadas3)
        ELSE IF TdsrExcede(c, r.TDSR_MAXIMO)
        THEN Rechazo(RazonTdsr(c.tn, c.td, r.TDSR_MAXIMO), score, Llamadas3)
        ELSE IF ScoreInsuficiente(score, r.SCORE_MINIMO_APROBACION)
        THEN Rechazo(RazonScore(score, r.SCORE_MINIMO_APROBACION), score, Llamadas3)
        ELSE IF cond.exc # ""
        THEN Excepcion(cond.exc, Llamadas3 \o <<"calcular_condiciones_credito">>)
        ELSE Aprobado(score, cond, g, h, c)

\* evaluar_solicitud called at the minute ahora of the clock: an approval
\* carries datetime.now().strftime('%d/%m/%Y %H:%M') (app.py:460), a
\* rejection carries no date.
evaluar_solicitud_en(datos, r, ahora) ==
    LET res == evaluar_solicitud(datos, r)
    IN  IF res.tipo = "aprobado" THEN [res EXCEPT !.fecha = ahora] ELSE res

\* /api/evaluar: the JSON answer and its status for an outcome of
\* evaluar_solicitud; any exception is caught and answered with 400
Respuesta(resultado) ==
    IF resultado.tipo = "excepcion"
    THEN [success |-> FALSE, status |-> 400, error |-> resultado.exc,
          data |-> SinResultado]
    ELSE [success |-> TRUE, status |-> 200, error |-> "", data |-> resultado]

evaluar_credito(datos, r) == Respuesta(evaluar_solicitud(datos, r))

-----------------------------------------------------------------------------
(* /api/admin/actualizar-reglas: the validation of the submitted values.   *)

ClavesEnteras ==
    {"SCORE_MINIMO_APROBACION", "INGRESO_MINIMO", "MONTO_MAXIMO_CREDITO",
     "FICO_MINIMO_APROBACION"}

\* [int(x) for x in str(value).split(',')]
ReglaPlazos(x) ==
    CASE x.k = "csv" -> Ok(x.l)
      [] x.k \in {"num", "strnum"} -> Ok(<<x.v>>)
      [] OTHER -> Exc("ValueError")

\* The conversion by the type of the rule's current value: int(value) for
\* an integer rule, float(value) for a float rule.
ReglaValidada(clave, x) ==
    IF clave = "PLAZOS_AUTORIZADOS" THEN ReglaPlazos(x)
    ELSE IF clave \in ClavesEnteras THEN ToInt(x)
    ELSE ToFloat100(x)

\* The validation without the test "key in REGLAS_NEGOCIO"
ValidarSinFiltro(cuerpo, R) ==
    IF ~cuerpo.obj THEN [exc |-> "AttributeError", v |-> <<>>]
    ELSE LET claves == DOMAIN cuerpo.d
             malas == {c \in claves : ReglaValidada(c, cuerpo.d[c]).exc # ""}
         IN  IF malas # {}
             THEN [exc |-> "ValueError", v |-> <<>>]
             ELSE [exc |-> "",
                   v |-> [c \in claves |-> ReglaValidada(c, cuerpo.d[c]).v]]

\* The validation skipping the values that do not convert
ValidarSaltaMalas(cuerpo, R) ==
    IF ~cuerpo.obj THEN [exc |-> "AttributeError", v |-> <<>>]
    ELSE LET claves == {c \in (DOMAIN cuerpo.d) \cap (DOMAIN R) :
                            ReglaValidada(c, cuerpo.d[c]).exc = ""}
         IN  [exc |-> "", v |-> [c \in claves |-> ReglaValidada(c, cuerpo.d[c]).v]]

\* reglas_validadas of a request body, or the exception of the first value
\* that does not convert; keys that are no rule are skipped.
Validar(cuerpo, R) ==
    IF ~cuerpo.obj THEN [exc |-> "AttributeError", v |-> <<>>]
    ELSE LET claves == (DOMAIN cuerpo.d) \cap (DOMAIN R)
             malas == {c \in claves : ReglaValidada(c, cuerpo.d[c]).exc # ""}
         IN  IF malas # {}
             THEN [exc |-> ReglaValidada(CHOOSE c \in malas : TRUE,
                                         cuerpo.d[CHOOSE c \in malas : TRUE]).exc,
                   v |-> <<>>]
             ELSE [exc |-> "",
                   v |-> [c \in claves |-> ReglaValidada(c, cuerpo.d[c]).v]]

-----------------------------------------------------------------------------
(* The server.  Flask's development server (app.run, app.py:1082) handles  *)
(* every request in a thread of its own: the steps of the handlers         *)
(* interleave between any two accesses to the shared dictionaries.         *)

Evaluadores == {"e1", "e2"}
Administradores == {"a1", "a2"}
Sesiones == {"s1"}
Passwords == {"RAG123", "incorrecta"}

\* How many replacements of modelo.reglas an evaluation counts (it stops
\* counting there).
MaxCambios == 2

SinLecturas == [c \in Claves |-> {}]

\* ev[t].  pc is the position of the handler; ingresos .. tasa are the
\* locals of evaluar_solicitud and calcular_condiciones_credito; res is the
\* outcome of the last evaluation.  History of the evaluation: inicio is
\* modelo.reglas when it started, leido the values it read from
\* modelo.reglas per key, cambios how many times modelo.reglas was replaced
\* while it ran, despues modelo.reglas after the first replacement,
\* solapada whether another evaluation was running when it started.
EvInicial ==
    [pc |-> "idle", datos |-> NoObjeto, ingresos |-> 0, ingreso_minimo |-> 0,
     g |-> SinCategoria, h |-> SinCategoria, c |-> SinCategoria, score |-> 0,
     monto |-> 0, tasa |-> 0, res |-> SinResultado,
     inicio |-> ReglasDefecto, leido |-> SinLecturas, cambios |-> 0,
     despues |-> ReglasDefecto, solapada |-> FALSE]

AdmInicial == [pc |-> "idle", validadas |-> <<>>, status |-> 0]

Init ==
    /\ REGLAS_NEGOCIO = ReglasDefecto
    /\ reglas = ReglasDefecto
    /\ session = [s \in Sesiones |-> FALSE]
    /\ adm = [a \in Administradores |-> AdmInicial]
    /\ ev = [t \in Evaluadores |-> EvInicial]

Libre(t) == ev[t].pc \in {"idle", "done"}

\* self.reglas[clave], recorded in the history of the evaluation
Leer(e, clave) == [e EXCEPT !.leido[clave] = @ \cup {reglas[clave]}]

\* The evaluation ends with the outcome res; its locals die with the call.
Terminar(e, res) ==
    [e EXCEPT !.pc = "done", !.res = res, !.ingresos = 0, !.ingreso_minimo = 0,
              !.g = SinCategoria, !.h = SinCategoria, !.c = SinCategoria,
              !.score = 0, !.monto = 0, !.tasa = 0]

Llamadas(n) == SubSeq(Llamadas3, 1, n)

\* app.py:388-389: a new request; float(datos.get('ingresos_mensuales', 0))
\* and the comparison with INGRESO_MINIMO
EvalIngresos(t, datos) ==
    /\ Libre(t)
    /\ LET e0 == [EvInicial EXCEPT
                        !.datos = datos, !.inicio = reglas, !.despues = reglas,
                        !.solapada = \E u \in Evaluadores \ {t} : ~Libre(u)]
           ingresos == ToFloat(Get(datos.d, "ingresos_mensuales", Num(0)))
       IN  ev' = [ev EXCEPT ![t] =
                IF ~datos.obj THEN Terminar(e0, Excepcion("AttributeError", <<>>))
                ELSE IF ingresos.exc # "" THEN Terminar(e0, Excepcion(ingresos.exc, <<>>))
                ELSE [Leer(e0, "INGRESO_MINIMO") EXCEPT
                        !.ingresos = ingresos.v,
                        !.pc = IF ingresos.v < reglas.INGRESO_MINIMO
                               THEN "razon_ingresos" ELSE "fico"]]
    /\ UNCHANGED <<REGLAS_NEGOCIO, reglas, session, adm>>

\* app.py:390-394
EvalRazonIngresos(t) ==
    /\ ev[t].pc = "razon_ingresos"
    /\ ev' = [ev EXCEPT ![t] =
                Terminar(Leer(ev[t], "INGRESO_MINIMO"),
                         Rechazo(RazonIngresos(reglas.INGRESO_MINIMO), 0, <<>>))]
    /\ UNCHANGED <<REGLAS_NEGOCIO, reglas, session, adm>>

\* app.py:396-397
EvalFico(t) ==
    /\ ev[t].pc = "fico"
    /\ LET fico == ToInt(Get(ev[t].datos.d, "fico_score", Num(600)))
       IN  ev' = [ev EXCEPT ![t] =
                IF fico.exc # "" THEN Terminar(ev[t], Excepcion(fico.exc, <<>>))
                ELSE [Leer(ev[t], "FICO_MINIMO_APROBACION") EXCEPT
                        !.pc = IF fico.v < reglas.FICO_MINIMO_APROBACION
                               THEN "razon_fico" ELSE "generales"]]
    /\ UNCHANGED <<REGLAS_NEGOCIO, reglas, session, adm>>

\* app.py:398-402
EvalRazonFico(t) ==
    /\ ev[t].pc = "razon_fico"
    /\ ev' = [ev EXCEPT ![t] =
                Terminar(Leer(ev[t], "FICO_MINIMO_APROBACION"),
                         Rechazo(RazonFico(reglas.FICO_MINIMO_APROBACION), 0, <<>>))]
    /\ UNCHANGED <<REGLAS_NEGOCIO, reglas, session, adm>>

\* EvalGenerales with the category kept in an attribute of the shared model
\* object instead of a local: every running evaluation sees the last one.
EvalGeneralesCompartido(t) ==
    /\ ev[t].pc = "generales"
    /\ LET g == calcular_variables_generales(ev[t].datos.d, reglas)
       IN  ev' = [u \in Evaluadores |->
                IF u = t
                THEN IF g.exc # "" THEN Terminar(ev[t], Excepcion(g.exc, Llamadas(1)))
                     ELSE [Leer(ev[t], "FACTOR_SCORING") EXCEPT
                             !.g = g, !.pc = "historial"]
                ELSE IF g.exc = "" /\ ~Libre(u) /\ ev[u].pc # "generales"
                     THEN [ev[u] EXCEPT !.g = g]
                     ELSE ev[u]]
    /\ UNCHANGED <<REGLAS_NEGOCIO, reglas, session, adm>>

\* app.py:405
EvalGenerales(t) ==
    /\ ev[t].pc = "generales"
    /\ LET g == calcular_variables_generales(ev[t].datos.d, reglas)
       IN  ev' = [ev EXCEPT ![t] =
                IF g.exc # "" THEN Terminar(ev[t], Excepcion(g.exc, Llamadas(1)))
                ELSE [Leer(ev[t], "FACTOR_SCORING") EXCEPT !.g = g, !.pc = "historial"]]
    /\ UNCHANGED <<REGLAS_NEGOCIO, reglas, session, adm>>

\* app.py:406
EvalHistorial(t) ==
    /\ ev[t].pc = "historial"
    /\ LET h == calcular_historial_crediticio(ev[t].datos.d, reglas)
       IN  ev' = [ev EXCEPT ![t] =
                IF h.exc # "" THEN Terminar(ev[t], Excepcion(h.exc, Llamadas(2)))
                ELSE [Leer(ev[t], "FACTOR_SCORING") EXCEPT !.h = h, !.pc = "capacidad"]]
    /\ UNCHANGED <<REGLAS_NEGOCIO, reglas, session, adm>>

\* EvalCapacidadIngreso storing the applicant's income as the default it
\* read: self.reglas['INGRESO_MINIMO'] = ingresos_mensuales.
EvalCapacidadIngresoGuarda(t) ==
    /\ ev[t].pc = "capacidad"
    /\ LET d == ev[t].datos.d
           e == PrimeraExc(<<StrMethod(Get(d, "tipo_comprobante", Str("otros"))),
                             StrMethod(Get(d, "ocupacion", Str("empleado_privado")))>>)
       IN  /\ ev' = [ev EXCEPT ![t] =
                IF e # "" THEN Terminar(ev[t], Excepcion(e, Llamadas3))
                ELSE [Leer(ev[t], "INGRESO_MINIMO") EXCEPT
                        !.ingreso_minimo = reglas.INGRESO_MINIMO,
                        !.pc = "capacidad_factor"]]
           /\ reglas' = IF e # "" THEN reglas
                        ELSE [reglas EXCEPT !.INGRESO_MINIMO = ev[t].ingresos]
    /\ UNCHANGED <<REGLAS_NEGOCIO, session, adm>>

\* app.py:407, 262-301: calcular_capacidad_pago up to the read of
\* INGRESO_MINIMO, the default of datos.get('ingresos_mensuales', ...)
EvalCapacidadIngreso(t) ==
    /\ ev[t].pc = "capacidad"
    /\ LET d == ev[t].datos.d
           e == PrimeraExc(<<StrMethod(Get(d, "tipo_comprobante", Str("otros"))),
                             StrMethod(Get(d, "ocupacion", Str("empleado_privado")))>>)
       IN  ev' = [ev EXCEPT ![t] =
                IF e # "" THEN Terminar(ev[t], Excepcion(e, Llamadas3))
                ELSE [Leer(ev[t], "INGRESO_MINIMO") EXCEPT
                        !.ingreso_minimo = reglas.INGRESO_MINIMO,
                        !.pc = "capacidad_factor"]]
    /\ UNCHANGED <<REGLAS_NEGOCIO, reglas, session, adm>>

\* app.py:301-333, then 410-414: the rest of calcular_capacidad_pago and
\* score_final
EvalCapacidadFactor(t) ==
    /\ ev[t].pc = "capacidad_factor"
    /\ LET c == CapacidadPago(ev[t].datos.d, ev[t].ingreso_minimo,
                              reglas.FACTOR_SCORING)
       IN  ev' = [ev EXCEPT ![t] =
                IF c.exc # "" THEN Terminar(ev[t], Excepcion(c.exc, Llamadas3))
                ELSE [Leer(ev[t], "FACTOR_SCORING") EXCEPT
                        !.c = c, !.score = ScoreFinal(ev[t].g, ev[t].h, c),
                        !.pc = "tdsr"]]
    /\ UNCHANGED <<REGLAS_NEGOCIO, reglas, session, adm>>

\* app.py:417
EvalTdsr(t) ==
    /\ ev[t].pc = "tdsr"
    /\ ev' = [ev EXCEPT ![t] =
                [Leer(ev[t], "TDSR_MAXIMO") EXCEPT
                    !.pc = IF TdsrExcede(ev[t].c, reglas.TDSR_MAXIMO)
                           THEN "razon_tdsr" ELSE "score"]]
    /\ UNCHANGED <<REGLAS_NEGOCIO, reglas, session, adm>>

\* app.py:418-422
EvalRazonTdsr(t) ==
    /\ ev[t].pc = "razon_tdsr"
    /\ ev' = [ev EXCEPT ![t] =
                Terminar(Leer(ev[t], "TDSR_MAXIMO"),
                         Rechazo(RazonTdsr(ev[t].c.tn, ev[t].c.td, reglas.TDSR_MAXIMO),
                                 ev[t].score, Llamadas3))]
    /\ UNCHANGED <<REGLAS_NEGOCIO, reglas, session, adm>>

\* app.py:425
EvalScore(t) ==
    /\ ev[t].pc = "score"
    /\ ev' = [ev EXCEPT ![t] =
                [Leer(ev[t], "SCORE_MINIMO_APROBACION") EXCEPT
                    !.pc = IF ScoreInsuficiente(ev[t].score,
                                                reglas.SCORE_MINIMO_APROBACION)
                           THEN "razon_score" ELSE "cond_monto"]]
    /\ UNCHANGED <<REGLAS_NEGOCIO, reglas, session, adm>>

\* app.py:426-430
EvalRazonScore(t) ==
    /\ ev[t].pc = "razon_score"
    /\ ev' = [ev EXCEPT ![t] =
                Terminar(Leer(ev[t], "SCORE_MINIMO_APROBACION"),
                         Rechazo(RazonScore(ev[t].score, reglas.SCORE_MINIMO_APROBACION),
                                 ev[t].score, Llamadas3))]
    /\ UNCHANGED <<REGLAS_NEGOCIO, reglas, session, adm>>

\* app.py:433, 336-348: monto_final
EvalCondMonto(t) ==
    /\ ev[t].pc = "cond_monto"
    /\ ev' = [ev EXCEPT ![t] =
                [Leer(ev[t], "MONTO_MAXIMO_CREDITO") EXCEPT
                    !.monto = MontoFinal(ev[t].score, ev[t].ingresos, ev[t].c.tn,
                                         ev[t].c.td, reglas.MONTO_MAXIMO_CREDITO),
                    !.pc = "cond_tasa_minima"]]
    /\ UNCHANGED <<REGLAS_NEGOCIO, reglas, session, adm>>

\* app.py:351-358
EvalCondTasaMinima(t) ==
    /\ ev[t].pc = "cond_tasa_minima"
    /\ ev' = [ev EXCEPT ![t] =
                [Leer(ev[t], "TASA_MINIMA") EXCEPT
                    !.tasa = TasaBase(ev[t].score, reglas.TASA_MINIMA),
                    !.pc = "cond_tasa_maxima"]]
    /\ UNCHANGED <<REGLAS_NEGOCIO, reglas, session, adm>>

\* app.py:360
EvalCondTasaMaxima(t) ==
    /\ ev[t].pc = "cond_tasa_maxima"
    /\ ev' = [ev EXCEPT ![t] =
                [Leer(ev[t], "TASA_MAXIMA") EXCEPT
                    !.tasa = Min(ev[t].tasa, reglas.TASA_MAXIMA),
                    !.pc = "cond_plazos"]]
    /\ UNCHANGED <<REGLAS_NEGOCIO, reglas, session, adm>>

\* app.py:362-384, then 436-461
EvalCondPlazos(t) ==
    /\ ev[t].pc = "cond_plazos"
    /\ LET e == ev[t]
           cond == Oferta(e.monto, e.tasa, reglas.PLAZOS_AUTORIZADOS, e.ingresos)
       IN  ev' = [ev EXCEPT ![t] =
                Terminar(Leer(e, "PLAZOS_AUTORIZADOS"),
                    IF cond.exc # ""
                    THEN Excepcion(cond.exc, Llamadas3 \o <<"calcular_condiciones_credito">>)
                    ELSE Aprobado(e.score, cond, e.g, e.h, e.c))]
    /\ UNCHANGED <<REGLAS_NEGOCIO, reglas, session, adm>>

Evaluar(t) ==
    \/ EvalRazonIngresos(t)
    \/ EvalFico(t)
    \/ EvalRazonFico(t)
    \/ EvalGenerales(t)
    \/ EvalHistorial(t)
    \/ EvalCapacidadIngreso(t)
    \/ EvalCapacidadFactor(t)
    \/ EvalTdsr(t)
    \/ EvalRazonTdsr(t)
    \/ EvalScore(t)
    \/ EvalRazonScore(t)
    \/ EvalCondMonto(t)
    \/ EvalCondTasaMinima(t)
    \/ EvalCondTasaMaxima(t)
    \/ EvalCondPlazos(t)

-----------------------------------------------------------------------------
(* The admin session and the rule update.                                  *)

\* app.py:538-545: POST /admin/login; a wrong password leaves the session
\* as it was
admin_login(s, password) ==
    /\ session' = [session EXCEPT ![s] = IF password = "RAG123" THEN TRUE ELSE @]
    /\ UNCHANGED <<REGLAS_NEGOCIO, reglas, adm, ev>>

\* app.py:550-552
admin_logout(s) ==
    /\ session' = [session EXCEPT ![s] = FALSE]
    /\ UNCHANGED <<REGLAS_NEGOCIO, reglas, adm, ev>>

\* Every session taken for an administrator's
is_admin_siempre(s) == TRUE

\* app.py:534-535
is_admin(s) == session[s]

\* An evaluation that is running sees modelo.reglas replaced by nuevas.
VerCambio(e, nuevas) ==
    IF e.pc \in {"idle", "done"} \/ nuevas = reglas THEN e
    ELSE [e EXCEPT !.cambios = Min(e.cambios + 1, MaxCambios),
                   !.despues = IF e.cambios = 0 THEN nuevas ELSE e.despues]

\* app.py:562-583: the request of session s with the JSON body cuerpo, up
\* to REGLAS_NEGOCIO.update(reglas_validadas)
ActualizarGlobal(a, s, cuerpo) ==
    /\ adm[a].pc = "idle"
    /\ LET val == Validar(cuerpo, REGLAS_NEGOCIO)
       IN  IF ~is_admin(s)
           THEN /\ adm' = [adm EXCEPT ![a] = [AdmInicial EXCEPT !.status = 401]]
                /\ UNCHANGED REGLAS_NEGOCIO
           ELSE IF val.exc # ""
           THEN /\ adm' = [adm EXCEPT ![a] = [AdmInicial EXCEPT !.status = 400]]
                /\ UNCHANGED REGLAS_NEGOCIO
           ELSE /\ adm' = [adm EXCEPT ![a] =
                            [pc |-> "modelo", validadas |-> val.v, status |-> 0]]
                /\ REGLAS_NEGOCIO' = Update(REGLAS_NEGOCIO, val.v)
    /\ UNCHANGED <<reglas, session, ev>>

\* app.py:584-586 and 35-37: modelo.actualizar_reglas(reglas_validadas)
ActualizarModelo(a) ==
    /\ adm[a].pc = "modelo"
    /\ reglas' = Update(reglas, adm[a].validadas)
    /\ ev' = [t \in Evaluadores |-> VerCambio(ev[t], reglas')]
    /\ adm' = [adm EXCEPT ![a] = [AdmInicial EXCEPT !.status = 200]]
    /\ UNCHANGED <<REGLAS_NEGOCIO, session>>

-----------------------------------------------------------------------------
(* The requests of the model.                                              *)

\* CASOS_ESTUDIO['perfil_alto']['datos'] (app.py:471-487)
PerfilAlto ==
    [Vacio EXCEPT
        !["ingresos_mensuales"] = StrNum(35000), !["edad"] = StrNum(38),
        !["estado_civil"] = Str("casado"), !["dependientes"] = StrNum(2),
        !["nivel_estudios"] = Str("universidad"),
        !["ocupacion"] = Str("empleado_publico"),
        !["antiguedad_empleo"] = StrNum(5), !["antiguedad_domicilio"] = StrNum(8),
        !["comprobante_domicilio"] = Str("si"), !["comprobante_ingresos"] = Str("si"),
        !["fico_score"] = StrNum(720), !["ultima_calificacion"] = StrNum(1),
        !["numero_consultas"] = StrNum(2), !["tipo_comprobante"] = Str("nomina"),
        !["deuda_mensual"] = StrNum(8000)]

\* CASOS_ESTUDIO['perfil_basico']['datos'] (app.py:513-529)
PerfilBasico ==
    [Vacio EXCEPT
        !["ingresos_mensuales"] = StrNum(15000), !["edad"] = StrNum(28),
        !["estado_civil"] = Str("soltero"), !["dependientes"] = StrNum(0),
        !["nivel_estudios"] = Str("universidad"),
        !["ocupacion"] = Str("independiente"),
        !["antiguedad_empleo"] = StrNum(2), !["antiguedad_domicilio"] = StrNum(2),
        !["comprobante_domicilio"] = Str("si"), !["comprobante_ingresos"] = Str("no"),
        !["fico_score"] = StrNum(600), !["ultima_calificacion"] = StrNum(2),
        !["numero_consultas"] = StrNum(8), !["tipo_comprobante"] = Str("declaracion"),
        !["deuda_mensual"] = StrNum(3000)]

\* The applicant records sent to the threaded server.
Solicitudes ==
    {Cuerpo(PerfilAlto),
     Cuerpo([PerfilBasico EXCEPT !["deuda_mensual"] = Num(6000)]),
     Cuerpo([PerfilBasico EXCEPT !["ingresos_mensuales"] = Num(7000),
                                 !["fico_score"] = Num(450)]),
     Cuerpo([PerfilAlto EXCEPT !["edad"] = Str("treinta")])}

\* The bodies sent to the rule update of the threaded server.
CuerposReglas ==
    {Cuerpo([SCORE_MINIMO_APROBACION |-> StrNum(100), INGRESO_MINIMO |-> StrNum(5000)]),
     Cuerpo([TDSR_MAXIMO |-> Dec(30), TASA_MINIMA |-> Dec(30)]),
     Cuerpo([SCORE_MINIMO_APROBACION |-> StrNum(250), INGRESO_MINIMO |-> StrNum(8000),
             TDSR_MAXIMO |-> Dec(45), TASA_MINIMA |-> Dec(22)]),
     Cuerpo([MONTO_MAXIMO_CREDITO |-> StrNum(90000), TASA_MAXIMA |-> Str("alta")])}

\* The threaded server with one evaluation and one rule update in flight.
Next ==
    \/ \E datos \in Solicitudes : EvalIngresos("e1", datos)
    \/ Evaluar("e1")
    \/ \E s \in Sesiones, password \in Passwords : admin_login(s, password)
    \/ \E s \in Sesiones : admin_logout(s)
    \/ \E s \in Sesiones, cuerpo \in CuerposReglas : ActualizarGlobal("a1", s, cuerpo)
    \/ ActualizarModelo("a1")

Spec == Init /\ [][Next]_vars

\* The rule sets the admin can install from the defaults with at most two
\* accepted updates.
ReglasInstaladas ==
    LET validas == {Validar(b, ReglasDefecto).v :
                        b \in {x \in CuerposReglas : Validar(x, ReglasDefecto).exc = ""}}
        una == {Update(ReglasDefecto, v) : v \in validas}
    IN  {ReglasDefecto} \cup una \cup {Update(r, v) : r \in una, v \in validas}

\* The evaluations of two requests in parallel, no rule update in progress.
InitParalelo ==
    /\ reglas \in ReglasInstaladas
    /\ REGLAS_NEGOCIO = reglas
    /\ session = [s \in Sesiones |-> FALSE]
    /\ adm = [a \in Administradores |-> AdmInicial]
    /\ ev = [t \in Evaluadores |-> EvInicial]

NextParalelo ==
    \/ \E t \in Evaluadores, datos \in Solicitudes : EvalIngresos(t, datos)
    \/ \E t \in Evaluadores : Evaluar(t)

SpecParalelo == InitParalelo /\ [][NextParalelo]_vars

-----------------------------------------------------------------------------
(* The server handling one request at a time: every handler runs from its  *)
(* first line to its answer before the next request starts.                *)

\* app.py:605-611: POST /api/evaluar
EvaluarCredito(t, datos) ==
    /\ \A u \in Evaluadores : Libre(u)
    /\ ev' = [ev EXCEPT ![t] =
                Terminar([EvInicial EXCEPT !.datos = datos, !.inicio = reglas,
                                           !.despues = reglas],
                         evaluar_solicitud(datos, reglas))]
    /\ UNCHANGED <<REGLAS_NEGOCIO, reglas, session, adm>>

\* app.py:562-589: POST /api/admin/actualizar-reglas
actualizar_reglas(a, s, cuerpo) ==
    /\ \A b \in Administradores : adm[b].pc = "idle"
    /\ LET val == Validar(cuerpo, REGLAS_NEGOCIO)
           status == IF ~is_admin(s) THEN 401 ELSE IF val.exc # "" THEN 400 ELSE 200
       IN  /\ adm' = [adm EXCEPT ![a] = [AdmInicial EXCEPT !.status = status]]
           /\ REGLAS_NEGOCIO' =
                IF status = 200 THEN Update(REGLAS_NEGOCIO, val.v) ELSE REGLAS_NEGOCIO
           /\ reglas' = IF status = 200 THEN Update(reglas, val.v) ELSE reglas
    /\ ev' = [t \in Evaluadores |-> VerCambio(ev[t], reglas')]
    /\ UNCHANGED session

\* The applicant records sent to the sequential server: the basic case
\* study with every combination of an income, a credit score and a debt,
\* and the high case study with a debt and an age.
Ingresos == {Ausente, Num(0), StrNum(7000), StrNum(15000), Str("mucho")}
Ficos == {Num(450), StrNum(600), StrDec(72000)}
Deudas == {StrNum(3000), Num(9000)}

SolicitudesSec ==
    {Cuerpo([PerfilBasico EXCEPT !["ingresos_mensuales"] = i, !["fico_score"] = f,
                                 !["deuda_mensual"] = q]) :
        i \in Ingresos, f \in Ficos, q \in Deudas}
    \cup {Cuerpo([PerfilAlto EXCEPT !["deuda_mensual"] = q, !["edad"] = e]) :
            q \in {StrNum(8000), Num(20000)}, e \in {StrNum(38), Str("treinta")}}
    \cup {Cuerpo([PerfilBasico EXCEPT !["ingresos_mensuales"] = Num(0),
                                      !["deuda_mensual"] = Num(0)]),
          Cuerpo(Vacio), NoObjeto}

\* The bodies sent to the rule update of the sequential server.
CuerposSec ==
    {Cuerpo([SCORE_MINIMO_APROBACION |-> StrNum(100)]),
     Cuerpo([SCORE_MINIMO_APROBACION |-> Num(500)]),
     Cuerpo([INGRESO_MINIMO |-> StrNum(0), TDSR_MAXIMO |-> Dec(30),
             FACTOR_SCORING |-> StrDec(100)]),
     Cuerpo([SCORE_MINIMO_APROBACION |-> StrNum(250), INGRESO_MINIMO |-> StrNum(8000),
             TDSR_MAXIMO |-> Dec(45), FACTOR_SCORING |-> StrDec(120)]),
     Cuerpo([INGRESO_MINIMO |-> StrNum(6000), TASA_MINIMA |-> Str("baja")]),
     NoObjeto}

NextSec ==
    \/ \E datos \in SolicitudesSec : EvaluarCredito("e1", datos)
    \/ \E s \in Sesiones, cuerpo \in CuerposSec : actualizar_reglas("a1", s, cuerpo)
    \/ \E s \in Sesiones, password \in Passwords : admin_login(s, password)
    \/ \E s \in Sesiones : admin_logout(s)

SpecSec == Init /\ [][NextSec]_vars

-----------------------------------------------------------------------------
(* The sequential server under the rule sets the update handler accepts:   *)
(* a few applicant records, and bodies that set the terms, the rates, the  *)
(* TDSR limit, the maximum amount and the scoring factor.                  *)

\* An applicant in the best band of every factor: credit score 820, income
\* 60000, debt 5000, five years in the job and eight at the address, age 35.
PerfilOptimo ==
    [PerfilAlto EXCEPT
        !["ingresos_mensuales"] = StrNum(60000), !["edad"] = StrNum(35),
        !["fico_score"] = StrNum(820), !["deuda_mensual"] = StrNum(5000)]

SolicitudesReglas ==
    {Cuerpo(PerfilOptimo), Cuerpo(PerfilAlto), Cuerpo(PerfilBasico),
     Cuerpo([PerfilBasico EXCEPT !["ingresos_mensuales"] = StrNum(7000)])}

CuerposAjustes ==
    {Cuerpo([SCORE_MINIMO_APROBACION |-> StrNum(100)]),
     Cuerpo([PLAZOS_AUTORIZADOS |-> Csv(<<6, 0>>)]),
     Cuerpo([TASA_MINIMA |-> Dec(40), TDSR_MAXIMO |-> Dec(150)]),
     Cuerpo([MONTO_MAXIMO_CREDITO |-> StrNum(5000)]),
     Cuerpo([MONTO_MAXIMO_CREDITO |-> StrNum(40060), FACTOR_SCORING |-> Dec(300)]),
     Cuerpo([SCORE_MINIMO_APROBACION |-> StrNum(250),
             PLAZOS_AUTORIZADOS |-> Csv(<<3, 6, 9, 12>>),
             TASA_MINIMA |-> Dec(22), TDSR_MAXIMO |-> Dec(45),
             MONTO_MAXIMO_CREDITO |-> StrNum(150000), FACTOR_SCORING |-> Dec(120)]),
     Cuerpo([PLAZOS_AUTORIZADOS |-> Str("doce")])}

NextReglas ==
    \/ \E datos \in SolicitudesReglas : EvaluarCredito("e1", datos)
    \/ \E s \in Sesiones, cuerpo \in CuerposAjustes : actualizar_reglas("a1", s, cuerpo)
    \/ \E s \in Sesiones, password \in Passwords : admin_login(s, password)
    \/ \E s \in Sesiones : admin_logout(s)

SpecReglas == Init /\ [][NextReglas]_vars

-----------------------------------------------------------------------------
(* The threaded server under rule updates alone: two update requests in    *)
(* flight, sent from two browser sessions that log in and out, with        *)
(* bodies that are valid, partly valid, not an object, or carry a key that *)
(* is no rule.                                                             *)

SesionesAdmin == {"s1", "s2"}

CuerposAdmin ==
    {Cuerpo([SCORE_MINIMO_APROBACION |-> StrNum(100)]),
     Cuerpo([SCORE_MINIMO_APROBACION |-> Dec(50070), TDSR_MAXIMO |-> StrNum(1)]),
     Cuerpo([MONTO_MAXIMO_CREDITO |-> StrNum(90000), TASA_MAXIMA |-> Str("alta")]),
     Cuerpo([CLAVE_NUEVA |-> Num(1), PLAZOS_AUTORIZADOS |-> Csv(<<6, 12>>)]),
     NoObjeto}

InitAdmin ==
    /\ REGLAS_NEGOCIO = ReglasDefecto
    /\ reglas = ReglasDefecto
    /\ session = [s \in SesionesAdmin |-> FALSE]
    /\ adm = [a \in Administradores |-> AdmInicial]
    /\ ev = [t \in Evaluadores |-> EvInicial]

NextAdmin ==
    \/ \E a \in Administradores, s \in SesionesAdmin, cuerpo \in CuerposAdmin :
            ActualizarGlobal(a, s, cuerpo)
    \/ \E a \in Administradores : ActualizarModelo(a)
    \/ \E s \in SesionesAdmin, password \in Passwords : admin_login(s, password)
    \/ \E s \in SesionesAdmin : admin_logout(s)

SpecAdmin == InitAdmin /\ [][NextAdmin]_vars

-----------------------------------------------------------------------------
(* The sequential server with its clock: two clients send their requests   *)
(* at any minute, and the administrator lowers and restores the minimum    *)
(* score between them.                                                     *)

\* The minutes of the clock at which a request is served
Minutos == {1, 2}

\* The evaluation served from the rule set of the evaluator's previous
\* request
EvaluarEnReglasViejas(t, datos, ahora) ==
    /\ \A u \in Evaluadores : Libre(u)
    /\ ev' = [ev EXCEPT ![t] =
                Terminar([EvInicial EXCEPT !.datos = datos, !.inicio = reglas,
                                           !.despues = reglas],
                         evaluar_solicitud_en(datos, ev[t].inicio, ahora))]
    /\ UNCHANGED <<REGLAS_NEGOCIO, reglas, session, adm>>

\* app.py:605-611: POST /api/evaluar served at the minute ahora
EvaluarEn(t, datos, ahora) ==
    /\ \A u \in Evaluadores : Libre(u)
    /\ ev' = [ev EXCEPT ![t] =
                Terminar([EvInicial EXCEPT !.datos = datos, !.inicio = reglas,
                                           !.despues = reglas],
                         evaluar_solicitud_en(datos, reglas, ahora))]
    /\ UNCHANGED <<REGLAS_NEGOCIO, reglas, session, adm>>

SolicitudesFecha ==
    {Cuerpo(PerfilAlto), Cuerpo(PerfilBasico),
     Cuerpo([PerfilBasico EXCEPT !["ingresos_mensuales"] = StrNum(7000)])}

CuerposFecha ==
    {Cuerpo([SCORE_MINIMO_APROBACION |-> StrNum(100)]),
     Cuerpo([SCORE_MINIMO_APROBACION |-> StrNum(250)])}

NextFecha ==
    \/ \E t \in Evaluadores, datos \in SolicitudesFecha, ahora \in Minutos :
            EvaluarEn(t, datos, ahora)
    \/ \E s \in Sesiones, cuerpo \in CuerposFecha : actualizar_reglas("a1", s, cuerpo)
    \/ \E s \in Sesiones, password \in Passwords : admin_login(s, password)
    \/ \E s \in Sesiones : admin_logout(s)

SpecFecha == Init /\ [][NextFecha]_vars

-----------------------------------------------------------------------------
(* The scoring step of evaluar_solicitud (app.py:405-414) on records that  *)
(* differ from a case study in one factor, under the scoring factors an    *)
(* update can install.                                                     *)

\* app.py:405-414: the three categories and score_final
Puntuar(t, datos) ==
    /\ ev[t].pc \in {"idle", "puntuado"}
    /\ LET g == calcular_variables_generales(datos.d, reglas)
           h == calcular_historial_crediticio(datos.d, reglas)
           c == calcular_capacidad_pago(datos.d, reglas)
       IN  ev' = [ev EXCEPT ![t] =
                    [EvInicial EXCEPT !.pc = "puntuado", !.datos = datos,
                                      !.g = g, !.h = h, !.c = c,
                                      !.score = ScoreFinal(g, h, c),
                                      !.inicio = reglas, !.despues = reglas]]
    /\ UNCHANGED <<REGLAS_NEGOCIO, reglas, session, adm>>

FactoresNumericos ==
    {"fico_score", "antiguedad_empleo", "antiguedad_domicilio", "numero_consultas",
     "deuda_mensual"}

\* The values of a factor: both sides of every band limit.  The debts are
\* 24%, 25%, 35%, 36%, 45%, 46% and 60% of an income of 15000.
ValoresFactor(campo) ==
    CASE campo = "fico_score" ->
            {300, 549, 550, 599, 600, 649, 650, 699, 700, 749, 750, 820}
      [] campo = "antiguedad_empleo" -> {0, 1, 2, 3, 5}
      [] campo = "antiguedad_domicilio" -> {0, 1, 2, 3, 5, 6, 8}
      [] campo = "numero_consultas" -> {0, 5, 6, 10, 11, 15, 16, 20}
      [] campo = "deuda_mensual" -> {0, 3600, 3750, 5250, 5400, 6750, 6900, 9000}

BasesFactores ==
    {PerfilBasico, [PerfilOptimo EXCEPT !["ingresos_mensuales"] = StrNum(15000)]}

SolicitudesFactores ==
    UNION {{Cuerpo([base EXCEPT ![campo] = StrNum(v)]) : v \in ValoresFactor(campo)} :
            base \in BasesFactores, campo \in FactoresNumericos}

\* The defaults with the scoring factors 1.2, 1.0, 3.0, 0.5 and -1.0.
ReglasFactores ==
    {[ReglasDefecto EXCEPT !.FACTOR_SCORING = f] : f \in {120, 100, 300, 50, -100}}

InitFactores ==
    /\ reglas \in ReglasFactores
    /\ REGLAS_NEGOCIO = reglas
    /\ session = [s \in Sesiones |-> FALSE]
    /\ adm = [a \in Administradores |-> AdmInicial]
    /\ ev = [t \in Evaluadores |-> EvInicial]

NextFactores == \E datos \in SolicitudesFactores : Puntuar("e1", datos)

SpecFactores == InitFactores /\ [][NextFactores]_vars

-----------------------------------------------------------------------------
(* The end of evaluar_solicitud (app.py:424-461) as a function of          *)
(* score_final, the income and the debt: the score check, the offer of     *)
(* calcular_condiciones_credito and the risk level, on scores at both      *)
(* sides of every threshold.                                               *)

\* score_final in tenths
Puntajes == {0, 349, 350, 850, 1290, 2499, 2500, 2999, 3000, 3499, 3500, 4300}
IngresosOferta == {8000, 12345, 35000}
DeudasOferta == {0, 3000}

\* The offer with the loop over the terms consuming PLAZOS_AUTORIZADOS of
\* the rule set
OfertarAgotaPlazos(t, score, ingresos, deuda) ==
    /\ ev[t].pc \in {"idle", "ofertado"}
    /\ LET c == [SinCategoria EXCEPT !.tn = deuda, !.td = ingresos]
           cond == calcular_condiciones_credito(score, ingresos, deuda, ingresos, reglas)
           res == IF ScoreInsuficiente(score, reglas.SCORE_MINIMO_APROBACION)
                  THEN Rechazo(RazonScore(score, reglas.SCORE_MINIMO_APROBACION),
                               score, Llamadas3)
                  ELSE Aprobado(score, cond, SinCategoria, SinCategoria, c)
       IN  ev' = [ev EXCEPT ![t] =
                    [EvInicial EXCEPT
                        !.pc = "ofertado", !.score = score, !.ingresos = ingresos,
                        !.c = c, !.res = res,
                        !.monto = MontoFinal(score, ingresos, deuda, ingresos,
                                             reglas.MONTO_MAXIMO_CREDITO),
                        !.tasa = Min(TasaBase(score, reglas.TASA_MINIMA),
                                     reglas.TASA_MAXIMA),
                        !.inicio = reglas, !.despues = reglas]]
    /\ reglas' = [reglas EXCEPT !.PLAZOS_AUTORIZADOS = <<>>]
    /\ UNCHANGED <<REGLAS_NEGOCIO, session, adm>>

\* app.py:424-461; tdsr = deuda / ingresos
Ofertar(t, score, ingresos, deuda) ==
    /\ ev[t].pc \in {"idle", "ofertado"}
    /\ LET c == [SinCategoria EXCEPT !.tn = deuda, !.td = ingresos]
           cond == calcular_condiciones_credito(score, ingresos, deuda, ingresos, reglas)
           res == IF ScoreInsuficiente(score, reglas.SCORE_MINIMO_APROBACION)
                  THEN Rechazo(RazonScore(score, reglas.SCORE_MINIMO_APROBACION),
                               score, Llamadas3)
                  ELSE IF cond.exc # ""
                  THEN Excepcion(cond.exc, Llamadas3 \o <<"calcular_condiciones_credito">>)
                  ELSE Aprobado(score, cond, SinCategoria, SinCategoria, c)
       IN  ev' = [ev EXCEPT ![t] =
                    [EvInicial EXCEPT
                        !.pc = "ofertado", !.score = score, !.ingresos = ingresos,
                        !.c = c, !.res = res,
                        !.monto = MontoFinal(score, ingresos, deuda, ingresos,
                                             reglas.MONTO_MAXIMO_CREDITO),
                        !.tasa = Min(TasaBase(score, reglas.TASA_MINIMA),
                                     reglas.TASA_MAXIMA),
                        !.inicio = reglas, !.despues = reglas]]
    /\ UNCHANGED <<REGLAS_NEGOCIO, reglas, session, adm>>

\* Rule sets the update handler installs: the defaults, a score minimum of
\* 100, and with it a minimum rate of 0.40, a minimum rate of -0.50, a
\* maximum rate of 0 or a maximum amount of 40060.
ReglasOferta ==
    {ReglasDefecto,
     [ReglasDefecto EXCEPT !.SCORE_MINIMO_APROBACION = 100],
     [ReglasDefecto EXCEPT !.SCORE_MINIMO_APROBACION = 100, !.TASA_MINIMA = 40],
     [ReglasDefecto EXCEPT !.SCORE_MINIMO_APROBACION = 100, !.TASA_MINIMA = -50],
     [ReglasDefecto EXCEPT !.SCORE_MINIMO_APROBACION = 100, !.TASA_MAXIMA = 0],
     [ReglasDefecto EXCEPT !.SCORE_MINIMO_APROBACION = 100,
                           !.MONTO_MAXIMO_CREDITO = 40060]}

InitOferta ==
    /\ reglas \in ReglasOferta
    /\ REGLAS_NEGOCIO = reglas
    /\ session = [s \in Sesiones |-> FALSE]
    /\ adm = [a \in Administradores |-> AdmInicial]
    /\ ev = [t \in Evaluadores |-> EvInicial]

NextOferta ==
    \E score \in Puntajes, ingresos \in IngresosOferta, deuda \in DeudasOferta :
        Ofertar("e1", score, ingresos, deuda)

SpecOferta == InitOferta /\ [][NextOferta]_vars

-----------------------------------------------------------------------------
(* The claims.                                                             *)

Termino(t) == ev[t].pc = "done"

DeUnSoloConjunto(e, r) == \A c \in Claves : e.leido[c] \subseteq {r[c]}

\* C1: when one rule update runs concurrently with an evaluation, every
\* rule value the evaluation read comes from one rule set: all from the rule
\* set before the update, or all from the rule set after it.
C1_LecturasDeUnSoloConjunto ==
    \A t \in Evaluadores :
        (Termino(t) /\ ev[t].cambios = 1) =>
            \/ DeUnSoloConjunto(ev[t], ev[t].inicio)
            \/ DeUnSoloConjunto(ev[t], ev[t].despues)

\* C2: no step of an evaluation, whatever its outcome, changes
\* modelo.reglas or REGLAS_NEGOCIO.
C2_EvaluacionNoMutaReglas ==
    [][\A t \in Evaluadores :
          ((\E datos \in Solicitudes : EvalIngresos(t, datos)) \/ Evaluar(t))
              => (reglas' = reglas /\ REGLAS_NEGOCIO' = REGLAS_NEGOCIO)]_vars

\* An evaluation has run to an approval under rules the admin installed.
C2_Testigo ==
    \E t \in Evaluadores :
        Termino(t) /\ ev[t].res.tipo = "aprobado" /\ ev[t].inicio # ReglasDefecto

\* C3: with no rule update in progress, an evaluation interleaved with
\* another one returns what evaluar_solicitud returns when it runs alone on
\* the same applicant record and rule set.
C3_ParaleloIgualQueSolo ==
    \A t \in Evaluadores :
        (Termino(t) /\ ev[t].cambios = 0) =>
            ev[t].res = evaluar_solicitud(ev[t].datos, ev[t].inicio)

\* Two evaluations of different records that overlapped have both ended,
\* one of them with an approval.
C3_Testigo ==
    \E t, u \in Evaluadores :
        /\ t # u /\ Termino(t) /\ Termino(u)
        /\ ev[t].solapada /\ ev[t].datos # ev[u].datos
        /\ ev[t].res.tipo = "aprobado" /\ ev[u].res.tipo = "rechazo"

\* The hard rules of the gate, decided on the values the applicant sent: a
\* field holds a number when it is a JSON integer or an integer literal,
\* and a field the record does not carry stands for the default of
\* evaluar_solicitud (income 0, credit score 600, debt 0).
EsNumero(x) == x.k \in {"num", "strnum", "absent"}

ViolaIngreso(datos, r) ==
    /\ datos.obj /\ EsNumero(datos.d["ingresos_mensuales"])
    /\ datos.d["ingresos_mensuales"].v < r.INGRESO_MINIMO

ViolaFico(datos, r) ==
    /\ datos.obj /\ EsNumero(datos.d["fico_score"])
    /\ (IF datos.d["fico_score"].k = "absent" THEN 600 ELSE datos.d["fico_score"].v)
            < r.FICO_MINIMO_APROBACION

ViolaTdsr(datos, r) ==
    /\ datos.obj
    /\ EsNumero(datos.d["ingresos_mensuales"]) /\ EsNumero(datos.d["deuda_mensual"])
    /\ datos.d["ingresos_mensuales"].v > 0
    /\ datos.d["deuda_mensual"].v * 100 > r.TDSR_MAXIMO * datos.d["ingresos_mensuales"].v

\* The violated rules, numbered in the order of the checks: 1 the income,
\* 2 the credit score, 3 the TDSR.
Violadas(datos, r) ==
    {i \in 1..3 : \/ i = 1 /\ ViolaIngreso(datos, r)
                  \/ i = 2 /\ ViolaFico(datos, r)
                  \/ i = 3 /\ ViolaTdsr(datos, r)}

\* The hard rules a result's reason text cites.
Citadas(res) ==
    IF res.razon = <<>> THEN {}
    ELSE {i \in 1..3 : \/ i = 1 /\ res.razon[1] = "Ingresos insuficientes (minimo $"
                       \/ i = 2 /\ res.razon[1] = "FICO Score insuficiente (minimo "
                       \/ i = 3 /\ res.razon[1] = "TDSR excesivo ("}

Primera(S) == CHOOSE i \in S : \A j \in S : i <= j

SinIngreso(datos) ==
    /\ datos.obj /\ EsNumero(datos.d["ingresos_mensuales"])
    /\ datos.d["ingresos_mensuales"].v = 0

C5_ViolacionNuncaAprobada ==
    \A t \in Evaluadores :
        (/\ Termino(t)
         /\ \/ Violadas(ev[t].datos, ev[t].inicio) # {}
            \/ SinIngreso(ev[t].datos) /\ ev[t].inicio.TDSR_MAXIMO < 100) =>
            /\ ev[t].res.tipo # "aprobado"
            /\ ~ev[t].res.aprobado

\* a rejection for the TDSR of a record whose score passes the minimum
C5_Testigo ==
    \E t \in Evaluadores :
        /\ Termino(t) /\ ev[t].res.tipo = "rechazo"
        /\ Violadas(ev[t].datos, ev[t].inicio) = {3}
        /\ ev[t].res.score >= ev[t].inicio.SCORE_MINIMO_APROBACION * 10

RechazoSuave(datos, r, res) == res.tipo = "rechazo" /\ Violadas(datos, r) = {}
RechazoDuro(datos, r, res) == res.tipo = "rechazo" /\ Violadas(datos, r) # {}

C7_RazonSuaveDistinta ==
    \A t \in Evaluadores :
        (Termino(t) /\ RechazoSuave(ev[t].datos, ev[t].inicio, ev[t].res)) =>
            /\ ~ev[t].res.aprobado
            /\ \A datos \in SolicitudesSec :
                LET duro == evaluar_solicitud(datos, reglas)
                IN  RechazoDuro(datos, reglas, duro) =>
                        ~duro.aprobado /\ duro.razon # ev[t].res.razon

\* a soft rejection under a score minimum of 500, the number the credit
\* score rejection of the same rule set cites
C7_Testigo ==
    \E t \in Evaluadores :
        /\ Termino(t) /\ RechazoSuave(ev[t].datos, ev[t].inicio, ev[t].res)
        /\ ev[t].inicio = reglas
        /\ reglas.SCORE_MINIMO_APROBACION = reglas.FICO_MINIMO_APROBACION
        /\ \E datos \in SolicitudesSec :
            Citadas(evaluar_solicitud(datos, reglas)) = {2}

\* C8: a record whose income is below INGRESO_MINIMO is rejected at the
\* gate, before any scoring, with the reason citing insufficient income,
\* whatever its other fields hold.
C8_IngresoInsuficienteRechaza ==
    \A t \in Evaluadores :
        (Termino(t) /\ ViolaIngreso(ev[t].datos, ev[t].inicio)) =>
            /\ ev[t].res.tipo = "rechazo" /\ ~ev[t].res.aprobado
            /\ ev[t].res.razon =
                <<"Ingresos insuficientes (minimo $", ev[t].inicio.INGRESO_MINIMO, ")">>
            /\ ev[t].res.llamadas = <<>>

\* an income of 7000 rejected with a credit score that is not an integer
\* literal
C8_Testigo ==
    \E t \in Evaluadores :
        /\ Termino(t) /\ ViolaIngreso(ev[t].datos, ev[t].inicio)
        /\ ev[t].datos.d["ingresos_mensuales"] = StrNum(7000)
        /\ ev[t].datos.d["fico_score"].k = "strdec"
        /\ ev[t].res.tipo = "rechazo"

\* C9 as stated, for the records the income and credit score checks let
\* through: with an income of zero, or none, the evaluation is rejected for
\* the TDSR, and the ratio it reports is 1.0 (100.0%).
C9_SinIngresoFallaTdsr ==
    \A t \in Evaluadores :
        (/\ Termino(t) /\ SinIngreso(ev[t].datos)
         /\ EsNumero(ev[t].datos.d["deuda_mensual"])
         /\ EsNumero(ev[t].datos.d["fico_score"])
         /\ ~ViolaIngreso(ev[t].datos, ev[t].inicio)
         /\ ~ViolaFico(ev[t].datos, ev[t].inicio)) =>
            /\ ev[t].res.tipo = "rechazo"
            /\ Citadas(ev[t].res) = {3}
            /\ ev[t].res.razon[2] = 1000

\* C10 as stated: a record with a value that is not a number in a numeric
\* field gets a rejection with a reason, and no exception reaches the
\* caller of evaluar_solicitud.
CamposNumericos ==
    {"ingresos_mensuales", "fico_score", "edad", "deuda_mensual",
     "antiguedad_empleo", "antiguedad_domicilio"}

Malformado(datos) ==
    /\ datos.obj
    /\ \E campo \in CamposNumericos : datos.d[campo].k \in {"str", "null", "array"}

C10_EntradaMalformadaRechaza ==
    \A t \in Evaluadores :
        (Termino(t) /\ Malformado(ev[t].datos)) =>
            /\ ev[t].res.tipo = "rechazo"
            /\ ev[t].res.razon # <<>>

\* A record whose fields all hold values of their type.
BienFormado(datos) ==
    /\ datos.obj
    /\ \A campo \in CamposNumericos : datos.d[campo].k \in {"num", "strnum"}
    /\ \A campo \in Campos \ CamposNumericos : datos.d[campo].k \in {"str", "strnum"}

\* C11 as stated: after any sequence of accepted rule updates, the
\* evaluation of a well-formed record returns a result (aprobado true or
\* false) and raises nothing.
C11_ReglasAceptadasNoFallan ==
    \A t \in Evaluadores :
        (Termino(t) /\ BienFormado(ev[t].datos)) => ev[t].res.tipo # "excepcion"

\* C12 as stated: in every reachable configuration TASA_MINIMA is strictly
\* below TASA_MAXIMA and TDSR_MAXIMO lies in (0, 1], in modelo.reglas and
\* in REGLAS_NEGOCIO.
Consistente(r) ==
    /\ r.TASA_MINIMA < r.TASA_MAXIMA
    /\ 0 < r.TDSR_MAXIMO /\ r.TDSR_MAXIMO <= 100

C12_ReglasConsistentes == Consistente(reglas) /\ Consistente(REGLAS_NEGOCIO)

\* C13 as stated: the total score of a record that passes the hard gate is
\* between 0 and 100.
PasaFiltro(datos, r) == BienFormado(datos) /\ Violadas(datos, r) = {}

Puntuado(t) == ev[t].pc = "puntuado"

PuntosFactor(g, h, c, campo) ==
    CASE campo = "antiguedad_domicilio" -> g.detalles[1].puntos
      [] campo = "antiguedad_empleo" -> g.detalles[6].puntos
      [] campo = "numero_consultas" -> h.detalles[2].puntos
      [] campo = "fico_score" -> h.detalles[3].puntos
      [] campo = "deuda_mensual" -> c.detalles[3].puntos

PuntosDeRegistro(d, r, campo) ==
    PuntosFactor(calcular_variables_generales(d, r), calcular_historial_crediticio(d, r),
                 calcular_capacidad_pago(d, r), campo)

NoPeor(campo, v, w) ==
    IF campo \in {"numero_consultas", "deuda_mensual"} THEN w <= v ELSE w >= v

Bandas(campo) ==
    CASE campo = "antiguedad_domicilio" -> {5, 15, 25, 30}
      [] campo = "antiguedad_empleo" -> {10, 16, 20}
      [] campo = "numero_consultas" -> {15, 20, 25, 30}
      [] campo = "fico_score" -> {18, 25, 30, 38, 45, 50}
      [] campo = "deuda_mensual" -> {15, 25, 28, 30}

C15_FactoresMonotonos ==
    \A t \in Evaluadores :
        Puntuado(t) =>
            \A campo \in FactoresNumericos :
                /\ PuntosFactor(ev[t].g, ev[t].h, ev[t].c, campo) \in Bandas(campo)
                /\ \A w \in ValoresFactor(campo) :
                    NoPeor(campo, ev[t].datos.d[campo].v, w) =>
                        PuntosDeRegistro([ev[t].datos.d EXCEPT ![campo] = StrNum(w)],
                                         ev[t].inicio, campo)
                            >= PuntosFactor(ev[t].g, ev[t].h, ev[t].c, campo)

\* a credit score of 699 holds the points of the band below 700
C15_Testigo ==
    \E t \in Evaluadores :
        /\ Puntuado(t) /\ ev[t].datos.d["fico_score"] = StrNum(699)
        /\ PuntosFactor(ev[t].g, ev[t].h, ev[t].c, "fico_score") = 38
        /\ PuntosDeRegistro([ev[t].datos.d EXCEPT !["fico_score"] = StrNum(700)],
                            ev[t].inicio, "fico_score") = 45

Ofertado(t) == ev[t].pc = "ofertado"

\* C14 as stated: the tier of a score is AAA from 85, AA from 75, A from
\* 65, BBB from 55, BB from 45, B from 35, and a lower score is rejected.
NivelTabla(score) ==
    IF score >= 850 THEN "AAA"
    ELSE IF score >= 750 THEN "AA"
    ELSE IF score >= 650 THEN "A"
    ELSE IF score >= 550 THEN "BBB"
    ELSE IF score >= 450 THEN "BB"
    ELSE IF score >= 350 THEN "B"
    ELSE "REJECTED"

TasaOfrecida(score, r) ==
    calcular_condiciones_credito(score, 35000, 0, 35000, r).tasa_anual

RECURSIVE Saldo(_, _, _, _)
Saldo(monto, tasa, pago, meses) ==
    IF meses = 0 THEN monto
    ELSE LET previo == Saldo(monto, tasa, pago, meses - 1)
         IN  previo + Trunc(previo * tasa, 1200) - pago

Abs(x) == IF x >= 0 THEN x ELSE -x

EsAnualidad(monto, tasa, plazo, pago) ==
    IF tasa > 0
    THEN Abs(Saldo(monto, tasa, pago, plazo)) * 100 <= monto
    ELSE Abs(pago * plazo - monto) <= plazo

C16_MejorPerfilAprobado ==
    \A t \in Evaluadores :
        (/\ Termino(t) /\ ev[t].datos = Cuerpo(PerfilOptimo)
         /\ ev[t].inicio = ReglasDefecto) =>
            /\ ev[t].res.tipo = "aprobado" /\ ev[t].res.aprobado
            /\ ev[t].res.nivel_riesgo = "Bajo"
            /\ ev[t].res.tasa_anual = ReglasDefecto.TASA_MINIMA

\* C17 as stated: the rate of an approved offer lies between TASA_MINIMA
\* and TASA_MAXIMA of the rule set in force at the evaluation.
C17_TasaEntreMinimaYMaxima ==
    \A t \in Evaluadores :
        (Termino(t) /\ ev[t].res.tipo = "aprobado") =>
            /\ ev[t].inicio.TASA_MINIMA <= ev[t].res.tasa_anual
            /\ ev[t].res.tasa_anual <= ev[t].inicio.TASA_MAXIMA

\* C19 as stated: the amount of an approved offer, as reported after its
\* rounding, never exceeds MONTO_MAXIMO_CREDITO of the rule set in force.
C19_MontoHastaElMaximo ==
    \A t \in Evaluadores :
        (Termino(t) /\ ev[t].res.tipo = "aprobado") =>
            ev[t].res.monto_aprobado <= ev[t].inicio.MONTO_MAXIMO_CREDITO

\* C21 as stated: for every term of an offer, the balance that starts at
\* the amount and becomes balance * (1 + tasa / 12) - pago_mensual every
\* month is zero, to within 1% of the amount, after the months of the term,
\* and is above that margin after every smaller number of months.
C21_SaldoCeroAlFinalDelPlazo ==
    \A t \in Evaluadores :
        (Ofertado(t) /\ ev[t].res.tipo = "aprobado") =>
            \A n \in 1..Len(ev[t].res.opciones_plazo) :
                LET opcion == ev[t].res.opciones_plazo[n]
                    monto == ev[t].monto \div 100
                    saldo(k) == Saldo(monto, ev[t].res.tasa_anual,
                                      opcion.pago_mensual, k)
                IN  /\ Abs(saldo(opcion.plazo)) * 100 <= monto
                    /\ \A k \in 1..(opcion.plazo - 1) : saldo(k) * 100 > monto

MismaEntrada(t, u) ==
    /\ Termino(t) /\ Termino(u)
    /\ ev[t].datos = ev[u].datos /\ ev[t].inicio = ev[u].inicio

SinFecha(res) == [res EXCEPT !.fecha = 0]

C25_CopiasDeAcuerdo ==
    (\A a \in Administradores : adm[a].pc = "idle") =>
        \A clave \in Claves : REGLAS_NEGOCIO[clave] = reglas[clave]

\* C26: a rule update whose body is not an object, or carries for a rule a
\* value that does not convert to the type of the rule, is answered 400,
\* and a request answered 400 changes no key of REGLAS_NEGOCIO or of
\* modelo.reglas, the keys with valid values in the same body included.
ValorInvalido(clave, x) ==
    IF clave = "PLAZOS_AUTORIZADOS" THEN x.k \notin {"csv", "num", "strnum"}
    ELSE \/ x.k \in {"str", "csv", "null", "array"}
         \/ clave \in ClavesEnteras /\ x.k = "strdec"

CuerpoInvalido(cuerpo) ==
    \/ ~cuerpo.obj
    \/ \E clave \in (DOMAIN cuerpo.d) \cap Claves : ValorInvalido(clave, cuerpo.d[clave])

C26_TodoONada ==
    [][\A a \in Administradores :
        /\ (adm'[a] # adm[a] /\ adm'[a].status = 400) =>
                (REGLAS_NEGOCIO' = REGLAS_NEGOCIO /\ reglas' = reglas)
        /\ \A s \in SesionesAdmin, cuerpo \in CuerposAdmin :
                (ActualizarGlobal(a, s, cuerpo) /\ session[s] /\ CuerpoInvalido(cuerpo)) =>
                    /\ adm'[a].status = 400 /\ adm'[a].pc = "idle"
                    /\ REGLAS_NEGOCIO' = REGLAS_NEGOCIO /\ reglas' = reglas]_vars

\* a request answered 400 in a logged-in session, after which neither copy
\* holds the maximum amount that its body carried with a malformed rate
C26_Testigo ==
    \E a \in Administradores, s \in SesionesAdmin :
        /\ adm[a].status = 400 /\ session[s]
        /\ REGLAS_NEGOCIO.MONTO_MAXIMO_CREDITO = 150000
        /\ reglas.MONTO_MAXIMO_CREDITO = 150000
        /\ reglas.SCORE_MINIMO_APROBACION = 100

\* C27: the rules change only in the steps of an update request sent from a
\* session whose admin_logged_in flag is set; the flag becomes set only by
\* a login with the password RAG123, a login with another password leaves
\* it as it was, and a logout clears it; an update request from a session
\* without the flag is answered 401 and changes no rule.
Autorizada(a) ==
    \E s \in SesionesAdmin, cuerpo \in CuerposAdmin :
        session[s] /\ ActualizarGlobal(a, s, cuerpo)

C27_SoloAdminCambiaReglas ==
    [][/\ REGLAS_NEGOCIO' # REGLAS_NEGOCIO => \E a \in Administradores : Autorizada(a)
       /\ reglas' # reglas =>
            \E a \in Administradores : adm[a].pc = "modelo" /\ ActualizarModelo(a)
       /\ \A a \in Administradores :
            (adm'[a].pc = "modelo" /\ adm[a].pc # "modelo") => Autorizada(a)
       /\ \A s \in SesionesAdmin :
            /\ (session'[s] /\ ~session[s]) => admin_login(s, "RAG123")
            /\ \A password \in Passwords \ {"RAG123"} :
                    admin_login(s, password) => session' = session
            /\ admin_logout(s) => ~session'[s]
            /\ \A a \in Administradores, cuerpo \in CuerposAdmin :
                    (ActualizarGlobal(a, s, cuerpo) /\ ~session[s]) =>
                        /\ adm'[a].status = 401 /\ adm'[a].pc = "idle"
                        /\ REGLAS_NEGOCIO' = REGLAS_NEGOCIO /\ reglas' = reglas]_vars

\* one request answered 401 and one answered 200, with one session logged
\* in, the other not, and the minimum score changed
C27_Testigo ==
    /\ adm["a1"].status = 401 /\ adm["a2"].status = 200
    /\ session["s1"] /\ ~session["s2"]
    /\ reglas.SCORE_MINIMO_APROBACION = 100
    /\ REGLAS_NEGOCIO.SCORE_MINIMO_APROBACION = 100

\* C28: the checks run in the order income, credit score, TDSR, score; the
\* reason of a rejection is that of the first check the record fails in
\* this order; a rejection by the income or the credit score reports a
\* score of 0, a rejection by the TDSR or the score reports score_final.
RazonCitada(res) ==
    CASE res.razon[1] = "Ingresos insuficientes (minimo $" -> 1
      [] res.razon[1] = "FICO Score insuficiente (minimo " -> 2
      [] res.razon[1] = "TDSR excesivo (" -> 3
      [] res.razon[1] = "Score insuficiente (" -> 4
      [] OTHER -> 0

PuntajeDe(datos, r) ==
    ScoreFinal(calcular_variables_generales(datos.d, r),
               calcular_historial_crediticio(datos.d, r),
               calcular_capacidad_pago(datos.d, r))

\* The checks a record fails, numbered in their order; 4 is the score
Fallan(datos, r) ==
    Violadas(datos, r)
        \cup (IF PuntajeDe(datos, r) < r.SCORE_MINIMO_APROBACION * 10 THEN {4} ELSE {})

C28_RazonDelPrimerChequeo ==
    \A t \in Evaluadores :
        (Termino(t) /\ ev[t].res.tipo = "rechazo") =>
            LET fallan == Fallan(ev[t].datos, ev[t].inicio)
                citada == RazonCitada(ev[t].res)
            IN  /\ fallan # {}
                /\ citada = Primera(fallan)
                /\ Len(ev[t].res.razon) \in {3, 5}
                /\ ev[t].res.score =
                        IF citada \in {1, 2} THEN 0
                        ELSE PuntajeDe(ev[t].datos, ev[t].inicio)

\* a record that fails the TDSR and the score, rejected for the TDSR with
\* its score reported
C28_Testigo ==
    \E t \in Evaluadores :
        /\ Termino(t) /\ ev[t].res.tipo = "rechazo"
        /\ Fallan(ev[t].datos, ev[t].inicio) = {3, 4}
        /\ RazonCitada(ev[t].res) = 3 /\ ev[t].res.score > 0

\* C29: after any sequence of update requests, both copies of the rules
\* have exactly the keys of the defaults, every numeric rule holds a number
\* of its type (an integer for the integer rules, which a submitted 500.7
\* reaches as 500) and PLAZOS_AUTORIZADOS holds a list of integers; a
\* submitted key that is no rule is never added.
DelTipoDeLaRegla(clave, valor) ==
    IF clave = "PLAZOS_AUTORIZADOS" THEN valor \in Seq(Int) ELSE valor \in Int

C29_ClavesYTiposDeLasReglas ==
    \A R \in {REGLAS_NEGOCIO, reglas} :
        /\ DOMAIN R = Claves
        /\ "CLAVE_NUEVA" \notin DOMAIN R
        /\ \A clave \in Claves : DelTipoDeLaRegla(clave, R[clave])

\* both copies after the accepted bodies that carried a key that is no
\* rule and a minimum score of 500.7
C29_Testigo ==
    /\ \E a \in Administradores : adm[a].status = 200
    /\ \A R \in {REGLAS_NEGOCIO, reglas} :
        /\ R.PLAZOS_AUTORIZADOS = <<6, 12>>
        /\ R.SCORE_MINIMO_APROBACION = 500
        /\ R.TDSR_MAXIMO = 100

\* C30 as stated: whenever a record passes the four checks (income, credit
\* score, TDSR and score), the result is approved and carries an amount, a
\* rate and one payment option per entry of PLAZOS_AUTORIZADOS, in the
\* same order, each marked feasible exactly when its monthly payment is at
\* most 35% of the monthly income.
C30_CuatroChequeosAprueban ==
    \A t \in Evaluadores :
        (/\ Termino(t) /\ BienFormado(ev[t].datos)
         /\ Fallan(ev[t].datos, ev[t].inicio) = {}) =>
            LET res == ev[t].res
                plazos == ev[t].inicio.PLAZOS_AUTORIZADOS
                ingresos == ev[t].datos.d["ingresos_mensuales"].v
            IN  /\ res.tipo = "aprobado" /\ res.aprobado
                /\ res.monto_aprobado > 0
                /\ res.tasa_anual = Min(TasaBase(res.score, ev[t].inicio.TASA_MINIMA),
                                        ev[t].inicio.TASA_MAXIMA)
                /\ Len(res.opciones_plazo) = Len(plazos)
                /\ \A n \in 1..Len(plazos) :
                    /\ res.opciones_plazo[n].plazo = plazos[n]
                    /\ res.opciones_plazo[n].factible
                            <=> res.opciones_plazo[n].pago_mensual * 100 <= 35 * ingresos

====
